---- MODULE Spec2Model ----
(***************************************************************************)
(* Phase-phase coupling (PPC) of pybispectra: the per-connection kernel    *)
(* _compute_ppc, and PPC.compute, which validates the request, fans the    *)
(* kernel out over the connections with pqdm and stores the stacked        *)
(* result.                                                                 *)
(*                                                                         *)
(* Numbers.  An FFT coefficient is kept in polar form [amp, ph]: np.abs    *)
(* reads amp, np.angle(.., True) reads ph.  The kernel hands               *)
(* ph1 * (f2 / f1) - ph2 to np.exp(1j * ..), which reads it as radians.    *)
(* The data of the model lie on the lattice where that argument is a whole *)
(* number of quarter turns, so that np.exp(1j * ..) is one of 1, i, -1, -i *)
(* and every sum below is exact integer arithmetic; rounding of float64 is *)
(* outside the model.  A score is kept as the reduced fraction n/d of its  *)
(* square (the square root is not rational).                               *)
(***************************************************************************)
EXTENDS Integers, Sequences, FiniteSets, TLC

VARIABLES
    data,           \* self.data: FFT tensor [epochs x channels x frequencies]
    freqs,          \* self.freqs: the frequency axis
    indices,        \* self.indices: (seeds, targets) most recently used
    seeds,          \* self._seeds
    targets,        \* self._targets
    f1,             \* self.f1
    f2,             \* self.f2
    n_jobs,         \* self._n_jobs
    ppc,            \* self._ppc
    results,        \* self._results
    pc,             \* where the running compute call stands
    arg,            \* the arguments of the running (or last) compute call
    outcome,        \* how the last compute call ended
    tasks,          \* args of _compute_ppc: one kwargs dict per connection
    futures,        \* pqdm: one future per task
    order,          \* pqdm: the tasks in the order they completed
    kernel_calls,   \* kernel invocations since the last compute call began
    before,         \* the attributes as they were when the call began
    k_data,         \* kernel: data argument, [epochs x 2 x frequencies]
    k_freqs,        \* kernel: freqs argument
    k_f1s,          \* kernel: f1s argument
    k_f2s,          \* kernel: f2s argument
    k_out,          \* kernel: what the call produced
    heap,           \* the arrays and tuples in memory, by address
    caller,         \* the arrays the caller holds (addresses)
    container,      \* the Results object: its fields (addresses)
    returned,       \* what get_results handed to the caller (addresses)
    plot_obj,       \* the _PlotCFC object: its fields (addresses)
    built,          \* the contents each object was constructed from
    writes,         \* in-place writes the caller has made
    n_nodes,        \* plot object: self.n_nodes
    plot_arg,       \* plot: the arguments of the call
    plot_pc,        \* plot: where the call stands
    plot_out,       \* plot: how the call ended
    nodes,          \* plot: nodes, as _sort_plot_inputs returned it
    cbar_range,     \* plot: cbar_range, as _sort_plot_inputs returned it
    figures,        \* plot: the figures created
    axes,           \* plot: per figure, its subplots and what they show
    frame,          \* plot: the locals of the running loop
    drawn,          \* plot: the nodes drawn, in the order of drawing
    self_data,      \* plot object: self._data, [connections x rows x columns]
    self_f1s,       \* plot object: self.f1s
    self_f2s,       \* plot object: self.f2s
    sel_f1s,        \* plot: f1s, as _sort_plot_inputs returned it
    sel_f2s,        \* plot: f2s, as _sort_plot_inputs returned it
    f1_idcs,        \* plot: indices of sel_f1s in self.f1s (from 1)
    f2_idcs         \* plot: indices of sel_f2s in self.f2s (from 1)

attrs == <<indices, seeds, targets, f1, f2, n_jobs, ppc, results>>

pqdm_vars == <<tasks, futures, order, kernel_calls>>

kvars == <<k_data, k_freqs, k_f1s, k_f2s, k_out>>

heap_vars == <<heap, caller, container, returned, plot_obj, built, writes>>

plot_vars == <<n_nodes, plot_arg, plot_pc, plot_out, nodes, cbar_range,
               figures, axes, frame, drawn, self_data, self_f1s, self_f2s,
               sel_f1s, sel_f2s, f1_idcs, f2_idcs>>

vars == <<data, freqs, attrs, pc, arg, outcome, pqdm_vars, before, kvars,
          heap_vars, plot_vars>>

-----------------------------------------------------------------------------
(* Bounds of the model *)

NEpochs == 2
MaxGrid == 2
\* The hardware concurrency n_jobs is capped to.
CpuCount == 2
\* In-place writes a caller makes to the arrays it holds.
MaxWrites == 2
\* Connections in the results a plot object holds.
NNodes == 3
\* n_rows and n_cols of a plot call.
MaxSide == 2

-----------------------------------------------------------------------------
(* Values *)

None == <<>>
Some(v) == <<v>>
The(o) == o[1]

Range(s) == {s[i] : i \in 1..Len(s)}

Abs(x) == IF x < 0 THEN -x ELSE x

RECURSIVE Gcd(_, _)
Gcd(a, b) == IF b = 0 THEN a ELSE Gcd(b, a % b)

Lcm(a, b) == (a * b) \div Gcd(a, b)

RECURSIVE LcmOfAxis(_, _)
LcmOfAxis(axis, i) ==
    IF i > Len(axis) THEN 1
    ELSE IF axis[i] = 0 THEN LcmOfAxis(axis, i + 1)
    ELSE Lcm(Abs(axis[i]), LcmOfAxis(axis, i + 1))

\* The phase lattice of an axis: ph = PhaseUnit * k makes ph * f2 / f1 whole
\* for every f1, f2 of the axis.
PhaseUnit(axis) == LcmOfAxis(axis, 1)

RECURSIVE SumOver(_, _, _)
SumOver(f, lo, hi) == IF lo > hi THEN 0 ELSE f[lo] + SumOver(f, lo + 1, hi)

\* An entry of a result matrix: NaN, or the score whose square is n/d.
NaN == [nan |-> TRUE, n |-> 0, d |-> 1]
Score(n, d) == [nan |-> FALSE, n |-> n \div Gcd(n, d), d |-> d \div Gcd(n, d)]

\* What a call produced: a value, or the exception it raised.
Returned(v) == [raised |-> FALSE, err |-> "", value |-> v]
Raised(e) == [raised |-> TRUE, err |-> e, value |-> <<>>]

-----------------------------------------------------------------------------
(* Inputs *)

\* Frequency axes: one starting at 0 Hz, one without 0 Hz, and one in the
\* order of an FFT that returns the negative frequencies.
Axes == {<<0, 1, 2, 3>>, <<1, 2, 3, 4, 5>>, <<0, 1, -1>>}

\* A channel's coefficients over epochs e and frequency indices i.
Profiles == {"flat", "ramp", "notch", "gated"}

ProfileAmp(p, e, i) ==
    CASE p = "flat" -> 1
      [] p = "ramp" -> e
      [] p = "notch" -> IF i = 2 THEN 0 ELSE 2
      [] p = "gated" -> IF e = 1 THEN 0 ELSE 1

ProfilePhase(p, e, i) ==
    CASE p = "flat" -> 0
      [] p = "ramp" -> e % 2
      [] p = "notch" -> (e + i) % 2
      [] p = "gated" -> i % 2

\* np.angle of a zero coefficient is 0.
Coefficient(p, unit, e, i) ==
    [amp |-> ProfileAmp(p, e, i),
     ph |-> IF ProfileAmp(p, e, i) = 0 THEN 0 ELSE unit * ProfilePhase(p, e, i)]

\* The FFT tensor [epochs x channels x frequencies] of the channels chans.
MkData(chans, axis) ==
    LET unit == PhaseUnit(axis)
    IN [e \in 1..NEpochs |->
          [c \in 1..Len(chans) |->
              [i \in 1..Len(axis) |-> Coefficient(chans[c], unit, e, i)]]]

\* Sequences of at most n distinct members of S.
SeqsUpTo(S, n) ==
    UNION {{s \in [1..m -> S] : \A i, j \in 1..m : s[i] = s[j] => i = j} :
           m \in 0..n}

\* The grids a caller may hand to the kernel: distinct members of the axis,
\* in any order.
Grids(axis) == SeqsUpTo(Range(axis), MaxGrid)

-----------------------------------------------------------------------------
(* The kernel *)

\* fast_find_first: index of the first occurrence (callers pass members).
fast_find_first(vector, value) ==
    CHOOSE i \in 1..Len(vector) :
        /\ vector[i] = value
        /\ \A j \in 1..(i - 1) : vector[j] # value

\* np.exp(1j * x) for x a whole number of quarter turns.
ExpI(x) ==
    CASE x % 4 = 0 -> [re |-> 1, im |-> 0]
      [] x % 4 = 1 -> [re |-> 0, im |-> 1]
      [] x % 4 = 2 -> [re |-> -1, im |-> 0]
      [] x % 4 = 3 -> [re |-> 0, im |-> -1]

\* |fft_f1| * |fft_f2| per epoch.
AmpProduct(d, i1, i2) ==
    [e \in 1..Len(d) |-> d[e][1][i1].amp * d[e][2][i2].amp]

\* ppc.py line 178: the condition under which an entry is computed.
PairIsComputedLE(v1, v2) == v1 <= v2
PairIsComputed(v1, v2) == v1 < v2

\* ppc.py line 194: the epoch mean of the amplitude products, times the
\* number of epochs.
DenominatorSeedOnly(d, i1, i2) ==
    SumOver([e \in 1..Len(d) |-> d[e][1][i1].amp], 1, Len(d))
Denominator(d, i1, i2) ==
    SumOver(AmpProduct(d, i1, i2), 1, Len(d))

\* ppc.py lines 181-193: the square of the numerator, times the square of
\* the number of epochs.  The ratio f2 / f1 is applied exactly.
NumeratorSq(d, i1, i2, v1, v2) ==
    LET a == AmpProduct(d, i1, i2)
        u == [e \in 1..Len(d) |->
                ExpI((d[e][1][i1].ph * v2) \div v1 - d[e][2][i2].ph)]
        re == SumOver([e \in 1..Len(d) |-> a[e] * u[e].re], 1, Len(d))
        im == SumOver([e \in 1..Len(d) |-> a[e] * u[e].im], 1, Len(d))
    IN re * re + im * im

\* ppc.py lines 178-195 for one pair.  _compute_ppc is compiled by numba's
\* njit (line 143), whose default error model raises ZeroDivisionError on a
\* division by zero: f2 / f1 at line 188, numerator / denominator at 195.
Cell(d, fq, v1, v2) ==
    IF ~PairIsComputed(v1, v2) THEN Returned(NaN)
    ELSE LET i1 == fast_find_first(fq, v1)
             i2 == fast_find_first(fq, v2)
         IN IF v1 = 0 THEN Raised("ZeroDivisionError")
            ELSE IF Denominator(d, i1, i2) = 0
                 THEN Raised("ZeroDivisionError")
                 ELSE LET den == Denominator(d, i1, i2)
                      IN Returned(Score(NumeratorSq(d, i1, i2, v1, v2),
                                        den * den))

\* ppc.py lines 143-197: the matrix [f2 x f1], or the exception of the first
\* pair that raises.
compute_ppc_kernel_f1_rows(d, fq, f1s, f2s) ==
    LET cell == [j \in 1..Len(f1s) |->
                    [i \in 1..Len(f2s) |-> Cell(d, fq, f1s[j], f2s[i])]]
    IN IF \E j \in 1..Len(f1s), i \in 1..Len(f2s) : cell[j][i].raised
       THEN Raised("ZeroDivisionError")
       ELSE Returned([j \in 1..Len(f1s) |->
                        [i \in 1..Len(f2s) |-> cell[j][i].value]])
compute_ppc_kernel(d, fq, f1s, f2s) ==
    LET cell == [i \in 1..Len(f2s) |->
                    [j \in 1..Len(f1s) |-> Cell(d, fq, f1s[j], f2s[i])]]
    IN IF \E i \in 1..Len(f2s), j \in 1..Len(f1s) : cell[i][j].raised
       THEN Raised("ZeroDivisionError")
       ELSE Returned([i \in 1..Len(f2s) |->
                        [j \in 1..Len(f1s) |-> cell[i][j].value]])

-----------------------------------------------------------------------------
(* The requests made of compute *)

\* The recordings compute is run on: the profile of each channel, the axis.
Recordings ==
    {<<<<"flat", "ramp">>, <<1, 2, 3, 4, 5>>>>,
     <<<<"ramp", "notch">>, <<0, 1, 2, 3>>>>}

\* indices: None, valid pairs (one with a repeated connection), seeds and
\* targets of unequal length, an index that is no channel.
IndicesArgs ==
    {None,
     Some(<<<<0, 1>>, <<1, 0>>>>),
     Some(<<<<1, 1>>, <<0, 0>>>>),
     Some(<<<<0, 1>>, <<0>>>>),
     Some(<<<<0, 2>>, <<1, 1>>>>)}

\* (f1, f2): both None, members of every axis, a value that is on no axis
\* as f1, and as f2.
FreqArgs ==
    {<<None, None>>,
     <<Some(<<1, 2>>), Some(<<3, 2>>)>>,
     <<Some(<<7>>), None>>,
     <<Some(<<1, 2>>), Some(<<2, 7>>)>>}

\* n_jobs: sequential, and more than the hardware has.
NJobsArgs == {1, CpuCount + 1}

ComputeArgs ==
    {[indices |-> i, f1 |-> f[1], f2 |-> f[2], n_jobs |-> n] :
        i \in IndicesArgs, f \in FreqArgs, n \in NJobsArgs}

NoArgs == [indices |-> None, f1 |-> None, f2 |-> None, n_jobs |-> 1]

-----------------------------------------------------------------------------
(* _Process: selection and validation of the request *)

n_chans == Len(data[1])

\* Connection Selector.  None: every ordered pair of channels, self-pairs
\* included.  Otherwise two sequences of equal length of channel indices.
sort_indices(a) ==
    IF a = None
    THEN Returned(<<[k \in 1..(n_chans * n_chans) |-> (k - 1) \div n_chans],
                    [k \in 1..(n_chans * n_chans) |-> (k - 1) % n_chans]>>)
    ELSE LET s == The(a)[1]
             t == The(a)[2]
         IN IF Len(s) # Len(t) THEN Raised("ValueError: indices")
            ELSE IF \E k \in 1..Len(s) :
                        \/ s[k] < 0 \/ s[k] >= n_chans
                        \/ t[k] < 0 \/ t[k] >= n_chans
                 THEN Raised("ValueError: indices")
                 ELSE Returned(<<s, t>>)

\* Frequency Selector.  None: the whole axis.  Otherwise every value must be
\* a member of the axis.
sort_freqs(a1, a2) ==
    LET g1 == IF a1 = None THEN freqs ELSE The(a1)
        g2 == IF a2 = None THEN freqs ELSE The(a2)
    IN IF \E k \in 1..Len(g1) : g1[k] \notin Range(freqs)
       THEN Raised("ValueError: frequencies")
       ELSE IF \E k \in 1..Len(g2) : g2[k] \notin Range(freqs)
            THEN Raised("ValueError: frequencies")
            ELSE Returned(<<g1, g2>>)

\* n_jobs, capped to the hardware concurrency.
sort_parallelisation(n) == IF n > CpuCount THEN CpuCount ELSE n

-----------------------------------------------------------------------------
(* PPC.compute *)

\* ppc.py lines 93-103: the order of the steps of compute.
StepAfterFreqsLast(step) ==
    CASE step = "reset" -> "sort_indices"
      [] step = "sort_indices" -> "sort_parallelisation"
      [] step = "sort_parallelisation" -> "compute_ppc"
      [] step = "compute_ppc" -> "sort_freqs"
      [] step = "sort_freqs" -> "store_results"
      [] step = "store_results" -> "idle"
StepAfterIndicesLast(step) ==
    CASE step = "reset" -> "sort_freqs"
      [] step = "sort_freqs" -> "sort_parallelisation"
      [] step = "sort_parallelisation" -> "compute_ppc"
      [] step = "compute_ppc" -> "sort_indices"
      [] step = "sort_indices" -> "store_results"
      [] step = "store_results" -> "idle"
StepAfter(step) ==
    CASE step = "reset" -> "sort_indices"
      [] step = "sort_indices" -> "sort_freqs"
      [] step = "sort_freqs" -> "sort_parallelisation"
      [] step = "sort_parallelisation" -> "compute_ppc"
      [] step = "compute_ppc" -> "store_results"
      [] step = "store_results" -> "idle"

Attributes ==
    [indices |-> indices, f1 |-> f1, f2 |-> f2, n_jobs |-> n_jobs,
     ppc |-> ppc, results |-> results]

\* An exception leaves compute: the locals of the call are gone.
Raise(e) ==
    /\ pc' = "idle"
    /\ outcome' = Some(Raised(e))
    /\ tasks' = <<>>
    /\ futures' = <<>>
    /\ order' = <<>>

\* ppc.py lines 61-93, 108-111: compute is called and resets the attributes.
\* super()._reset_attrs() is defined outside the files at hand; the
\* assignment of line 111 is what is modelled.
Compute(a) ==
    /\ pc = "idle"
    /\ arg' = a
    /\ before' = Attributes
    /\ outcome' = None
    /\ ppc' = None
    /\ kernel_calls' = 0
    /\ tasks' = <<>>
    /\ futures' = <<>>
    /\ order' = <<>>
    /\ pc' = StepAfter("reset")
    /\ UNCHANGED <<data, freqs, indices, seeds, targets, f1, f2, n_jobs,
                   results, kvars,
                   heap_vars, plot_vars>>

\* ppc.py line 95.
SortIndices ==
    /\ pc = "sort_indices"
    /\ LET r == sort_indices(arg.indices)
       IN IF r.raised
          THEN /\ Raise(r.err)
               /\ UNCHANGED <<indices, seeds, targets>>
          ELSE /\ indices' = Some(r.value)
               /\ seeds' = Some(r.value[1])
               /\ targets' = Some(r.value[2])
               /\ pc' = StepAfter("sort_indices")
               /\ UNCHANGED <<outcome, tasks, futures, order>>
    /\ UNCHANGED <<data, freqs, f1, f2, n_jobs, ppc, results, arg,
                   kernel_calls, before, kvars,
                   heap_vars, plot_vars>>

\* ppc.py line 96.
SortFreqs ==
    /\ pc = "sort_freqs"
    /\ LET r == sort_freqs(arg.f1, arg.f2)
       IN IF r.raised
          THEN /\ Raise(r.err)
               /\ UNCHANGED <<f1, f2>>
          ELSE /\ f1' = Some(r.value[1])
               /\ f2' = Some(r.value[2])
               /\ pc' = StepAfter("sort_freqs")
               /\ UNCHANGED <<outcome, tasks, futures, order>>
    /\ UNCHANGED <<data, freqs, indices, seeds, targets, n_jobs, ppc, results,
                   arg, kernel_calls, before, kvars,
                   heap_vars, plot_vars>>

\* ppc.py line 97.
SortParallelisation ==
    /\ pc = "sort_parallelisation"
    /\ n_jobs' = Some(sort_parallelisation(arg.n_jobs))
    /\ pc' = StepAfter("sort_parallelisation")
    /\ UNCHANGED <<data, freqs, indices, seeds, targets, f1, f2, ppc, results,
                   arg, outcome, pqdm_vars, before, kvars,
                   heap_vars, plot_vars>>

-----------------------------------------------------------------------------
(* PPC._compute_ppc: the fan-out over the connections *)

\* ppc.py line 117: self.data[:, (seed, target)].
ConnectionSliceSwapped(seed, target) ==
    [e \in 1..Len(data) |-> <<data[e][target + 1], data[e][seed + 1]>>]
ConnectionSlice(seed, target) ==
    [e \in 1..Len(data) |-> <<data[e][seed + 1], data[e][target + 1]>>]

Min(a, b) == IF a < b THEN a ELSE b

\* ppc.py lines 115-123: one kwargs dict per zipped (seed, target).
MkTasksDistinct(s, t) ==
    LET keep == SelectSeq([k \in 1..Min(Len(s), Len(t)) |-> k],
                          LAMBDA k : \A l \in 1..(k - 1) :
                                        s[l] # s[k] \/ t[l] # t[k])
    IN [k \in 1..Len(keep) |->
          [data |-> ConnectionSlice(s[keep[k]], t[keep[k]]),
           freqs |-> freqs, f1s |-> f1, f2s |-> f2]]
MkTasksNoSelfPairs(s, t) ==
    LET keep == SelectSeq([k \in 1..Min(Len(s), Len(t)) |-> k],
                          LAMBDA k : s[k] # t[k])
    IN [k \in 1..Len(keep) |->
          [data |-> ConnectionSlice(s[keep[k]], t[keep[k]]),
           freqs |-> freqs, f1s |-> f1, f2s |-> f2]]
MkTasks(s, t) ==
    [k \in 1..Min(Len(s), Len(t)) |->
        [data |-> ConnectionSlice(s[k], t[k]),
         freqs |-> freqs, f1s |-> f1, f2s |-> f2]]

\* The kernel on one task's kwargs (numba rejects a None argument).
RunKernel(task) ==
    IF task.f1s = None \/ task.f2s = None THEN Raised("TypingError")
    ELSE compute_ppc_kernel(task.data, task.freqs, The(task.f1s), The(task.f2s))

Pending(k) == futures[k].state = "pending"
Running(k) == futures[k].state = "running"
Done(k) == futures[k].state = "done"
Failed(k) == Done(k) /\ The(futures[k].out).raised

\* ppc.py lines 115-123 and the submission of lines 126-133: pqdm submits
\* every task to its pool before it waits for any.
Dispatch ==
    /\ pc = "compute_ppc"
    /\ IF seeds = None \/ targets = None
       THEN Raise("TypeError")
       ELSE /\ tasks' = MkTasks(The(seeds), The(targets))
            /\ futures' = [k \in 1..Len(MkTasks(The(seeds), The(targets))) |->
                             [state |-> "pending", out |-> None,
                              after_failure |-> FALSE]]
            /\ order' = <<>>
            /\ pc' = "pqdm"
            /\ UNCHANGED outcome
    /\ UNCHANGED <<data, freqs, attrs, arg, kernel_calls, before, kvars,
                   heap_vars, plot_vars>>

\* A free worker of the pool (there are n_jobs) takes the next task.
TaskStart ==
    /\ pc = "pqdm"
    /\ \E k \in 1..Len(futures) :
        /\ Pending(k)
        /\ \A j \in 1..(k - 1) : ~Pending(j)
        /\ Cardinality({j \in 1..Len(futures) : Running(j)}) < The(n_jobs)
        /\ futures' = [futures EXCEPT
                         ![k].state = "running",
                         ![k].after_failure =
                             \E j \in 1..Len(futures) : Failed(j)]
        /\ kernel_calls' = kernel_calls + 1
    /\ UNCHANGED <<data, freqs, attrs, pc, arg, outcome, tasks, order, before,
                   kvars,
                   heap_vars, plot_vars>>

\* A worker's kernel call ends: its future holds the matrix, or the
\* exception (pqdm's default exception_behaviour keeps it as the result).
TaskFinishInPlace ==
    /\ pc = "pqdm"
    /\ \E k \in 1..Len(futures) :
        /\ Running(k)
        /\ futures' = [futures EXCEPT
                         ![k].state = "done",
                         ![k].out = Some(RunKernel(tasks[k]))]
        /\ tasks' = [tasks EXCEPT
                       ![k].data =
                           [e \in 1..Len(@) |->
                               [c \in 1..Len(@[e]) |->
                                   [i \in 1..Len(@[e][c]) |->
                                       [amp |-> 1, ph |-> @[e][c][i].ph]]]]]
        /\ order' = Append(order, k)
    /\ UNCHANGED <<data, freqs, attrs, pc, arg, outcome, kernel_calls,
                   before, kvars, heap_vars, plot_vars>>
TaskFinish ==
    /\ pc = "pqdm"
    /\ \E k \in 1..Len(futures) :
        /\ Running(k)
        /\ futures' = [futures EXCEPT
                         ![k].state = "done",
                         ![k].out = Some(RunKernel(tasks[k]))]
        /\ order' = Append(order, k)
    /\ UNCHANGED <<data, freqs, attrs, pc, arg, outcome, tasks, kernel_calls,
                   before, kvars,
                   heap_vars, plot_vars>>

\* pqdm returns the results: it reads its futures in the order of submission.
CollectAsCompleted(fs, ord) == [k \in 1..Len(fs) |-> The(fs[ord[k]].out)]
CollectResults(fs, ord) == [k \in 1..Len(fs) |-> The(fs[k].out)]

\* ppc.py lines 125-134: np.array of what pqdm returned.  Matrices of one
\* shape stack into the 3D array; exceptions alone make an array of objects;
\* matrices mixed with exceptions are ragged, which NumPy either refuses
\* (ValueError) or keeps as an array of objects, depending on its version.
CollectPartial ==
    /\ pc = "pqdm"
    /\ \E k \in 1..Len(futures) : Done(k)
    /\ LET done == SelectSeq([k \in 1..Len(futures) |-> k],
                             LAMBDA k : Done(k))
       IN ppc' = Some([k \in 1..Len(done) |-> The(futures[done[k]].out)])
    /\ pc' = StepAfter("compute_ppc")
    /\ UNCHANGED <<outcome, tasks, futures, order>>
    /\ UNCHANGED <<data, freqs, indices, seeds, targets, f1, f2, n_jobs,
                   results, arg, kernel_calls, before, kvars,
                   heap_vars, plot_vars>>
Collect ==
    /\ pc = "pqdm"
    /\ \A k \in 1..Len(futures) : Done(k)
    /\ LET outs == CollectResults(futures, order)
           ragged == /\ \E k \in 1..Len(outs) : outs[k].raised
                     /\ \E k \in 1..Len(outs) : ~outs[k].raised
       IN \/ /\ ppc' = Some(outs)
             /\ pc' = StepAfter("compute_ppc")
             /\ UNCHANGED <<outcome, tasks, futures, order>>
          \/ /\ ragged
             /\ Raise("ValueError: inhomogeneous shape")
             /\ UNCHANGED ppc
    /\ UNCHANGED <<data, freqs, indices, seeds, targets, f1, f2, n_jobs,
                   results, arg, kernel_calls, before, kvars,
                   heap_vars, plot_vars>>

\* ppc.py lines 136-140: Results(self._ppc, self.indices, self.f2, self.f1,
\* "PPC"), the arguments by position; then compute returns.
StoreResultsMerging ==
    /\ pc = "store_results"
    /\ results' = Some([pos1 |-> (IF results = None THEN <<>>
                                  ELSE The(results).pos1) \o The(ppc),
                        pos2 |-> The(indices),
                        pos3 |-> The(f2), pos4 |-> The(f1), pos5 |-> "PPC"])
    /\ pc' = StepAfter("store_results")
    /\ outcome' = Some(Returned(<<>>))
    /\ tasks' = <<>>
    /\ futures' = <<>>
    /\ order' = <<>>
    /\ UNCHANGED <<data, freqs, indices, seeds, targets, f1, f2, n_jobs, ppc,
                   arg, kernel_calls, before, kvars,
                   heap_vars, plot_vars>>
StoreResults ==
    /\ pc = "store_results"
    /\ results' = Some([pos1 |-> The(ppc), pos2 |-> The(indices),
                        pos3 |-> The(f2), pos4 |-> The(f1), pos5 |-> "PPC"])
    /\ pc' = StepAfter("store_results")
    /\ outcome' = Some(Returned(<<>>))
    /\ tasks' = <<>>
    /\ futures' = <<>>
    /\ order' = <<>>
    /\ UNCHANGED <<data, freqs, indices, seeds, targets, f1, f2, n_jobs, ppc,
                   arg, kernel_calls, before, kvars,
                   heap_vars, plot_vars>>

-----------------------------------------------------------------------------
(* The arguments of a plot call, and the results a plot object holds *)

Ceil(a, b) == (a + b - 1) \div b

\* cbar_range: None, one list for every plot, or a tuple of one list per
\* node.  A limit is a number or None.
CbarNone == [kind |-> "none", entries |-> <<>>]
CbarList(r) == [kind |-> "list", entries |-> <<r>>]
CbarTuple(rs) == [kind |-> "tuple", entries |-> rs]

CbarArgs ==
    {CbarNone,
     CbarList(<<Some(0), Some(1)>>),
     CbarList(<<Some(0)>>),
     CbarTuple(<< <<Some(0), Some(1)>> >>),
     CbarTuple(<< <<Some(0), Some(1)>>, <<None, Some(1)>> >>)}

\* nodes: None, lists of distinct nodes of the results in any order, a list
\* that names a node twice, and lists that name a node that does not exist.
NodeArgs ==
    {None}
    \cup {Some(s) : s \in SeqsUpTo(0..(NNodes - 1), NNodes)}
    \cup {Some(<<0, 0>>), Some(<<NNodes>>), Some(<<-1>>)}

\* f1s and f2s: None, values of the results, and a value that is in no grid.
PlotFreqArgs ==
    {<<None, None>>,
     <<Some(<<1>>), Some(<<3>>)>>,
     <<Some(<<2, 1>>), None>>,
     <<Some(<<7>>), None>>,
     <<None, Some(<<7>>)>>}

\* (major_tick_intervals, minor_tick_intervals).
TickArgs == {<<5, 1>>, <<1, 1>>, <<1, 5>>}

\* The defaults of plot (_plot.py lines 156-164).  node_type is the type of
\* the entries of nodes: a list of floats is a list of numbers tagged so.
NoPlotArgs ==
    [nodes |-> None, node_type |-> "int", f1s |-> None, f2s |-> None,
     n_rows |-> 1, n_cols |-> 1, major_tick_intervals |-> 5,
     minor_tick_intervals |-> 1, cbar_range |-> CbarNone]

PlotArgs ==
    {[NoPlotArgs EXCEPT !.nodes = ns, !.n_rows = r, !.n_cols = c,
                        !.cbar_range = cb] :
        ns \in NodeArgs, r \in 0..MaxSide, c \in 0..MaxSide, cb \in CbarArgs}
    \cup {[NoPlotArgs EXCEPT !.f1s = f[1], !.f2s = f[2], !.n_cols = c] :
            f \in PlotFreqArgs, c \in 1..MaxSide}
    \cup {[NoPlotArgs EXCEPT !.major_tick_intervals = t[1],
                             !.minor_tick_intervals = t[2]] : t \in TickArgs}
    \cup {[NoPlotArgs EXCEPT !.nodes = Some(<<0>>), !.node_type = "float"]}

\* The grids (f1, f2) of the compute call whose results are plotted.
StoredGrids == {<< <<1, 2>>, <<3, 4>> >>, << <<1, 2>>, <<3>> >>}

\* The array compute stores: [connections, f2, f1] (ppc.py lines 173-175, 195
\* and 125).  An entry is named by what it is the coupling of: connection c,
\* low frequency g1[j], high frequency g2[i].
StoredArray(g1, g2) ==
    [c \in 1..NNodes |->
        [i \in 1..Len(g2) |->
            [j \in 1..Len(g1) |-> <<c - 1, g1[j], g2[i]>>]]]

\* ppc.py lines 137-139 hand Results the grids as (f2, f1), by position.
\* Results hands them on to _PlotCFC either as the grids they are (f1s = f1,
\* f2s = f2) or in the order it received them (f1s = f2, f2s = f1).
Wirings == {"by_name", "by_position"}
Results_plot(w, g1, g2) == IF w = "by_name" THEN <<g1, g2>> ELSE <<g2, g1>>

NoFrame == [node_i |-> 0, plot_n |-> 0, fig_i |-> 0, fig_plot_n |-> 0,
            row |-> 0, col |-> 0]

\* No plot object exists.
NoPlot ==
    /\ n_nodes = 0
    /\ plot_arg = NoPlotArgs
    /\ plot_pc = "none"
    /\ plot_out = None
    /\ nodes = <<>>
    /\ cbar_range = <<>>
    /\ figures = <<>>
    /\ axes = <<>>
    /\ frame = NoFrame
    /\ drawn = <<>>
    /\ self_data = <<>>
    /\ self_f1s = <<>>
    /\ self_f2s = <<>>
    /\ sel_f1s = <<>>
    /\ sel_f2s = <<>>
    /\ f1_idcs = <<>>
    /\ f2_idcs = <<>>

-----------------------------------------------------------------------------
(* Arrays in memory: who holds a copy and who holds an alias *)

\* The fields of an object that carries results, as addresses in the heap.
\* The tuple indices holds the addresses of the seeds and the targets.
Deref(h, r) ==
    [data |-> h[r.data], seeds |-> h[h[r.indices][1]],
     targets |-> h[h[r.indices][2]], f1s |-> h[r.f1s], f2s |-> h[r.f2s]]

\* The arrays reachable through the fields r.
ArraysOf(h, r) ==
    {r.data, h[r.indices][1], h[r.indices][2], r.f1s, r.f2s}

\* numpy.ndarray.copy: a new array with the contents of the array at a.
alias(h, a) == [heap |-> h, ref |-> a]
copy(h, a) == [heap |-> Append(h, h[a]), ref |-> Len(h) + 1]

\* copy.deepcopy of the tuple at t: new arrays and a new tuple of them.
shallowcopy(h, t) == [heap |-> Append(h, h[t]), ref |-> Len(h) + 1]
deepcopy(h, t) ==
    LET h1 == Append(h, h[h[t][1]])
        h2 == Append(h1, h[h[t][2]])
    IN [heap |-> Append(h2, <<Len(h) + 1, Len(h) + 2>>), ref |-> Len(h) + 3]

\* _plot.py lines 23-41 and 141-152: _PlotCFC(data, f1s, f2s, indices, name)
\* keeps data.copy(), deepcopy(indices), f1s.copy() and f2s.copy().  The
\* name is a str, which nothing can write to.
PlotCFC_init(h, r) ==
    LET c1 == copy(h, r.data)
        c2 == deepcopy(c1.heap, r.indices)
        c3 == copy(c2.heap, r.f1s)
        c4 == copy(c3.heap, r.f2s)
    IN [heap |-> c4.heap,
        refs |-> [data |-> c1.ref, indices |-> c2.ref,
                  f1s |-> c3.ref, f2s |-> c4.ref]]

\* Results(data, indices, f1s, f2s, name): the container keeps copies.
Results_init(h, r) ==
    LET c1 == copy(h, r.data)
        c2 == deepcopy(c1.heap, r.indices)
        c3 == copy(c2.heap, r.f1s)
        c4 == copy(c3.heap, r.f2s)
    IN [heap |-> c4.heap,
        refs |-> [data |-> c1.ref, indices |-> c2.ref,
                  f1s |-> c3.ref, f2s |-> c4.ref]]

\* get_results: "Return a copy of the results" (ppc.py lines 31-32).
get_results(h, r) ==
    LET c1 == copy(h, r.data)
        c2 == deepcopy(c1.heap, r.indices)
        c3 == copy(c2.heap, r.f1s)
        c4 == copy(c3.heap, r.f2s)
    IN [heap |-> c4.heap,
        refs |-> [data |-> c1.ref, indices |-> c2.ref,
                  f1s |-> c3.ref, f2s |-> c4.ref]]

NothingBuilt == [container |-> None, plot |-> None]

\* No object of this section exists.
NoHeap ==
    /\ heap = <<>>
    /\ caller = None
    /\ container = None
    /\ returned = None
    /\ plot_obj = None
    /\ built = NothingBuilt
    /\ writes = 0

-----------------------------------------------------------------------------
(* The object and its callers *)

NoAttributes ==
    [indices |-> None, f1 |-> None, f2 |-> None, n_jobs |-> None,
     ppc |-> None, results |-> None]

\* PPC(data, freqs): the state after construction.
Init ==
    /\ \E rec \in Recordings :
        /\ data = MkData(rec[1], rec[2])
        /\ freqs = rec[2]
    /\ indices = None
    /\ seeds = None
    /\ targets = None
    /\ f1 = None
    /\ f2 = None
    /\ n_jobs = None
    /\ ppc = None
    /\ results = None
    /\ pc = "idle"
    /\ arg = NoArgs
    /\ outcome = None
    /\ tasks = <<>>
    /\ futures = <<>>
    /\ order = <<>>
    /\ kernel_calls = 0
    /\ before = NoAttributes
    /\ NoHeap
    /\ NoPlot
    /\ k_data = <<>>
    /\ k_freqs = <<>>
    /\ k_f1s = <<>>
    /\ k_f2s = <<>>
    /\ k_out = None

Next ==
    \/ \E a \in ComputeArgs : Compute(a)
    \/ SortIndices
    \/ SortFreqs
    \/ SortParallelisation
    \/ Dispatch
    \/ TaskStart
    \/ TaskFinish
    \/ Collect
    \/ StoreResults

Spec == Init /\ [][Next]_vars

-----------------------------------------------------------------------------
(* The kernel on its own: any slice, any axis, any grids of the axis *)

\* The arguments of one kernel call, drawn once; nothing is returned yet.
KernelInit ==
    \E axis \in Axes, seed \in Profiles, target \in Profiles :
        \E f1s \in Grids(axis), f2s \in Grids(axis) :
            /\ k_data = MkData(<<seed, target>>, axis)
            /\ k_freqs = axis
            /\ k_f1s = f1s
            /\ k_f2s = f2s
            /\ k_out = None
            /\ data = <<>>
            /\ freqs = <<>>
            /\ indices = None
            /\ seeds = None
            /\ targets = None
            /\ f1 = None
            /\ f2 = None
            /\ n_jobs = None
            /\ ppc = None
            /\ results = None
            /\ pc = "kernel"
            /\ arg = NoArgs
            /\ outcome = None
            /\ tasks = <<>>
            /\ futures = <<>>
            /\ order = <<>>
            /\ kernel_calls = 0
            /\ before = NoAttributes
            /\ NoHeap
            /\ NoPlot

\* The call: the arguments are read, never written.
KernelCall ==
    /\ k_out = None
    /\ k_out' = Some(compute_ppc_kernel(k_data, k_freqs, k_f1s, k_f2s))
    /\ UNCHANGED <<k_data, k_freqs, k_f1s, k_f2s>>
    /\ UNCHANGED <<data, freqs, attrs, pc, arg, outcome, pqdm_vars, before,
                   heap_vars, plot_vars>>

KernelNext == KernelCall

SpecKernel == KernelInit /\ [][KernelNext]_vars

-----------------------------------------------------------------------------
(* The result container, the plot object and the arrays of their callers *)

\* No PPC object and no kernel call: the variables of compute and of the
\* kernel are at rest.
NoCompute ==
    /\ data = <<>>
    /\ freqs = <<>>
    /\ indices = None
    /\ seeds = None
    /\ targets = None
    /\ f1 = None
    /\ f2 = None
    /\ n_jobs = None
    /\ ppc = None
    /\ results = None
    /\ arg = NoArgs
    /\ outcome = None
    /\ tasks = <<>>
    /\ futures = <<>>
    /\ order = <<>>
    /\ kernel_calls = 0
    /\ before = NoAttributes

NoKernel ==
    /\ k_data = <<>>
    /\ k_freqs = <<>>
    /\ k_f1s = <<>>
    /\ k_f2s = <<>>
    /\ k_out = None

\* A caller holds a coupling array, the tuple (seeds, targets) and the two
\* grids; no object has been constructed from them yet.
AliasInit ==
    /\ heap = << <<1, 2>>, <<0>>, <<1>>, <<2, 3>>, <<1>>, <<2>> >>
    /\ caller = Some([data |-> 1, indices |-> 4, f1s |-> 5, f2s |-> 6])
    /\ container = None
    /\ returned = None
    /\ plot_obj = None
    /\ built = NothingBuilt
    /\ writes = 0
    /\ pc = "alias"
    /\ NoCompute
    /\ NoKernel
    /\ NoPlot

\* The fields through which the caller can reach arrays: its own, and those
\* of the copy get_results handed out.
Held == {The(caller)} \cup (IF returned = None THEN {} ELSE {The(returned)})

\* Results(...) is constructed from the arrays the caller holds.
NewResults ==
    /\ pc = "alias"
    /\ container = None
    /\ LET c == Results_init(heap, The(caller))
       IN /\ heap' = c.heap
          /\ container' = Some(c.refs)
    /\ built' = [built EXCEPT !.container = Some(Deref(heap, The(caller)))]
    /\ UNCHANGED <<caller, returned, plot_obj, writes>>
    /\ UNCHANGED <<data, freqs, attrs, pc, arg, outcome, pqdm_vars, before,
                   kvars, plot_vars>>

\* get_results() hands the caller a copy of the container.
GetResults ==
    /\ pc = "alias"
    /\ container # None
    /\ returned = None
    /\ LET c == get_results(heap, The(container))
       IN /\ heap' = c.heap
          /\ returned' = Some(c.refs)
    /\ UNCHANGED <<caller, container, plot_obj, built, writes>>
    /\ UNCHANGED <<data, freqs, attrs, pc, arg, outcome, pqdm_vars, before,
                   kvars, plot_vars>>

\* _PlotCFC(...) is constructed from arrays the caller holds.
NewPlot ==
    /\ pc = "alias"
    /\ plot_obj = None
    /\ \E r \in Held :
        LET c == PlotCFC_init(heap, r)
        IN /\ heap' = c.heap
           /\ plot_obj' = Some(c.refs)
           /\ built' = [built EXCEPT !.plot = Some(Deref(heap, r))]
    /\ UNCHANGED <<caller, container, returned, writes>>
    /\ UNCHANGED <<data, freqs, attrs, pc, arg, outcome, pqdm_vars, before,
                   kvars, plot_vars>>

\* The caller writes in place to an element of an array it can reach.
Write ==
    /\ pc = "alias"
    /\ writes < MaxWrites
    /\ \E r \in Held :
        \E a \in ArraysOf(heap, r) :
            \E i \in 1..Len(heap[a]) :
                heap' = [heap EXCEPT ![a][i] = @ + 1]
    /\ writes' = writes + 1
    /\ UNCHANGED <<caller, container, returned, plot_obj, built>>
    /\ UNCHANGED <<data, freqs, attrs, pc, arg, outcome, pqdm_vars, before,
                   kvars, plot_vars>>

AliasNext ==
    \/ NewResults
    \/ GetResults
    \/ NewPlot
    \/ Write

SpecAlias == AliasInit /\ [][AliasNext]_vars

-----------------------------------------------------------------------------
(* _PlotCFC.plot: inputs, and the loops over figures and subplots *)

\* _plot.py lines 62-92 and 288-330, the checks in the order of the code.
\* The arguments other than the entries of nodes have the types of the
\* hints.  Returns nodes, f1s, f2s, f1_idcs, f2_idcs and cbar_range.
sort_plot_inputs_unchecked_cbar(a) ==
    LET ns == IF a.nodes = None THEN [k \in 1..n_nodes |-> k - 1]
              ELSE The(a.nodes)
        g1 == IF a.f1s = None THEN self_f1s ELSE The(a.f1s)
        g2 == IF a.f2s = None THEN self_f2s ELSE The(a.f2s)
        cb == a.cbar_range
        filled == IF cb.kind = "tuple" THEN cb.entries
                  ELSE [k \in 1..Len(ns) |->
                           IF cb.kind = "none" THEN <<None, None>>
                           ELSE cb.entries[1]]
    IN IF a.node_type # "int"
       THEN Raised("TypeError: nodes")
       ELSE IF \E k \in 1..Len(ns) : ns[k] >= n_nodes \/ ns[k] < 0
       THEN Raised("ValueError: nodes")
       ELSE IF a.n_rows < 1 \/ a.n_cols < 1
       THEN Raised("ValueError: n_rows, n_cols")
       ELSE IF a.minor_tick_intervals >= a.major_tick_intervals
       THEN Raised("ValueError: tick intervals")
       ELSE IF \/ \E k \in 1..Len(g1) : g1[k] \notin Range(self_f1s)
               \/ \E k \in 1..Len(g2) : g2[k] \notin Range(self_f2s)
       THEN Raised("ValueError: f1s, f2s")
       ELSE Returned(<<ns, g1, g2,
                       [k \in 1..Len(g1) |-> fast_find_first(self_f1s, g1[k])],
                       [k \in 1..Len(g2) |-> fast_find_first(self_f2s, g2[k])],
                       filled>>)
sort_plot_inputs(a) ==
    LET ns == IF a.nodes = None THEN [k \in 1..n_nodes |-> k - 1]
              ELSE The(a.nodes)
        g1 == IF a.f1s = None THEN self_f1s ELSE The(a.f1s)
        g2 == IF a.f2s = None THEN self_f2s ELSE The(a.f2s)
        cb == a.cbar_range
        filled == IF cb.kind = "tuple" THEN cb.entries
                  ELSE [k \in 1..Len(ns) |->
                           IF cb.kind = "none" THEN <<None, None>>
                           ELSE cb.entries[1]]
    IN IF a.node_type # "int"
       THEN Raised("TypeError: nodes")
       ELSE IF \E k \in 1..Len(ns) : ns[k] >= n_nodes \/ ns[k] < 0
       THEN Raised("ValueError: nodes")
       ELSE IF a.n_rows < 1 \/ a.n_cols < 1
       THEN Raised("ValueError: n_rows, n_cols")
       ELSE IF a.minor_tick_intervals >= a.major_tick_intervals
       THEN Raised("ValueError: tick intervals")
       ELSE IF \/ \E k \in 1..Len(g1) : g1[k] \notin Range(self_f1s)
               \/ \E k \in 1..Len(g2) : g2[k] \notin Range(self_f2s)
       THEN Raised("ValueError: f1s, f2s")
       ELSE IF cb.kind = "tuple" /\ Len(cb.entries) # Len(ns)
       THEN Raised("ValueError: cbar_range")
       ELSE IF \E k \in 1..Len(filled) : Len(filled[k]) # 2
       THEN Raised("ValueError: cbar_range")
       ELSE Returned(<<ns, g1, g2,
                       [k \in 1..Len(g1) |-> fast_find_first(self_f1s, g1[k])],
                       [k \in 1..Len(g2) |-> fast_find_first(self_f2s, g2[k])],
                       filled>>)

\* A plot object that holds the results of a compute call on NNodes
\* connections, and the arguments of a plot call.
PlotInit ==
    /\ n_nodes = NNodes
    /\ \E g \in StoredGrids, w \in Wirings :
        /\ self_data = StoredArray(g[1], g[2])
        /\ self_f1s = Results_plot(w, g[1], g[2])[1]
        /\ self_f2s = Results_plot(w, g[1], g[2])[2]
    /\ plot_arg \in PlotArgs
    /\ plot_pc = "called"
    /\ plot_out = None
    /\ nodes = <<>>
    /\ cbar_range = <<>>
    /\ figures = <<>>
    /\ axes = <<>>
    /\ frame = NoFrame
    /\ drawn = <<>>
    /\ sel_f1s = <<>>
    /\ sel_f2s = <<>>
    /\ f1_idcs = <<>>
    /\ f2_idcs = <<>>
    /\ pc = "plot"
    /\ NoCompute
    /\ NoKernel
    /\ NoHeap

\* Where plot goes when _create_plots has returned figs: into the while
\* loop of _plot_results (line 351), or past it.
AfterCreate(figs) == IF 0 < Len(figs) THEN "draw" ELSE "show"

\* _plot.py lines 221-231: plot calls _sort_plot_inputs; then line 232
\* enters the for loop of _create_plots (line 115).
SortPlotInputs ==
    /\ plot_pc = "called"
    /\ LET r == sort_plot_inputs(plot_arg)
       IN IF r.raised
          THEN /\ plot_out' = Some(r)
               /\ plot_pc' = "done"
               /\ UNCHANGED <<nodes, cbar_range, sel_f1s, sel_f2s, f1_idcs,
                              f2_idcs>>
          ELSE /\ nodes' = r.value[1]
               /\ sel_f1s' = r.value[2]
               /\ sel_f2s' = r.value[3]
               /\ f1_idcs' = r.value[4]
               /\ f2_idcs' = r.value[5]
               /\ cbar_range' = r.value[6]
               /\ plot_pc' = IF Len(r.value[1]) > 0 THEN "create"
                             ELSE AfterCreate(figures)
               /\ UNCHANGED plot_out
    /\ UNCHANGED <<n_nodes, plot_arg, figures, axes, frame, drawn, self_data,
                   self_f1s, self_f2s>>
    /\ UNCHANGED <<data, freqs, attrs, pc, arg, outcome, pqdm_vars, before,
                   kvars, heap_vars>>

\* _plot.py lines 115-125: one iteration of the for loop of _create_plots.
CreateStep ==
    /\ plot_pc = "create"
    /\ LET size == plot_arg.n_rows * plot_arg.n_cols
           make == frame.node_i = frame.plot_n
           figs == IF make THEN Append(figures, [suptitle |-> FALSE])
                   ELSE figures
           plot_n == IF make THEN frame.plot_n + size ELSE frame.plot_n
           over == plot_n >= Len(nodes) \/ frame.node_i + 1 >= Len(nodes)
       IN /\ figures' = figs
          /\ axes' = IF make THEN Append(axes, [k \in 1..size |-> None])
                     ELSE axes
          /\ frame' = IF over THEN NoFrame
                      ELSE [frame EXCEPT !.node_i = @ + 1, !.plot_n = plot_n]
          /\ plot_pc' = IF over THEN AfterCreate(figs) ELSE "create"
    /\ UNCHANGED <<n_nodes, plot_arg, plot_out, nodes, cbar_range, drawn,
                   self_data, self_f1s, self_f2s, sel_f1s, sel_f2s, f1_idcs,
                   f2_idcs>>
    /\ UNCHANGED <<data, freqs, attrs, pc, arg, outcome, pqdm_vars, before,
                   kvars, heap_vars>>

\* m[np.ix_(rows, cols)]: entry [a, b] is m[rows[a], cols[b]].
ix_(m, rows, cols) ==
    [a \in 1..Len(rows) |-> [b \in 1..Len(cols) |-> m[rows[a]][cols[b]]]]

\* np.ix_ raises IndexError for an index that is not in the matrix.
IxOutOfBounds(m, rows, cols) ==
    \/ \E a \in 1..Len(rows) : rows[a] > Len(m)
    \/ \E a \in 1..Len(m), b \in 1..Len(cols) : cols[b] > Len(m[a])

\* m.T.
Transposed(m) ==
    IF Len(m) = 0 THEN <<>>
    ELSE [b \in 1..Len(m[1]) |-> [a \in 1..Len(m) |-> m[a][b]]]

\* _plot.py line 360: the array handed to pcolormesh(f1s, f2s, ..), which
\* draws its entry [i, j] at (f1s[j], f2s[i]).
MeshValues(node_i) ==
    Transposed(ix_(self_data[node_i + 1], f1_idcs, f2_idcs))

\* _plot.py lines 352-395: one iteration of the innermost for loop of
\* _plot_results.  Reading a list or an array past its end raises
\* IndexError, which leaves plot.
DrawStep ==
    /\ plot_pc = "draw"
    /\ LET size == plot_arg.n_rows * plot_arg.n_cols
           past_end == \/ frame.plot_n >= Len(nodes)
                       \/ frame.fig_i >= Len(axes)
                       \/ frame.fig_plot_n >= Len(axes[frame.fig_i + 1])
                       \/ frame.plot_n >= Len(cbar_range)
           full == frame.fig_plot_n + 1 >= size
           fig_i == IF full THEN frame.fig_i + 1 ELSE frame.fig_i
           col == IF frame.col + 1 >= plot_arg.n_cols THEN 0
                  ELSE frame.col + 1
           row == IF frame.col + 1 >= plot_arg.n_cols THEN frame.row + 1
                  ELSE frame.row
           loops_over == row >= plot_arg.n_rows
       IN IF past_end
          THEN /\ plot_out' = Some(Raised("IndexError"))
               /\ plot_pc' = "done"
               /\ UNCHANGED <<figures, axes, frame, drawn>>
          ELSE IF IxOutOfBounds(self_data[nodes[frame.plot_n + 1] + 1],
                                f1_idcs, f2_idcs)
          THEN /\ plot_out' = Some(Raised("IndexError: data"))
               /\ plot_pc' = "done"
               /\ UNCHANGED <<figures, axes, frame, drawn>>
          ELSE /\ axes' = [axes EXCEPT
                             ![frame.fig_i + 1][frame.fig_plot_n + 1] =
                                 Some([node |-> nodes[frame.plot_n + 1],
                                       mesh |->
                                           MeshValues(nodes[frame.plot_n + 1]),
                                       range |-> cbar_range[frame.plot_n + 1]])]
               /\ drawn' = Append(drawn, nodes[frame.plot_n + 1])
               /\ figures' = IF full
                             THEN [figures EXCEPT
                                     ![frame.fig_i + 1].suptitle = TRUE]
                             ELSE figures
               /\ frame' = [frame EXCEPT
                              !.plot_n = @ + 1,
                              !.fig_plot_n = IF full THEN 0 ELSE @ + 1,
                              !.fig_i = fig_i,
                              !.row = IF loops_over THEN 0 ELSE row,
                              !.col = col]
               /\ plot_pc' = IF loops_over /\ ~(fig_i < Len(figures))
                             THEN "show" ELSE "draw"
               /\ UNCHANGED plot_out
    /\ UNCHANGED <<n_nodes, plot_arg, nodes, cbar_range, self_data, self_f1s,
                   self_f2s, sel_f1s, sel_f2s, f1_idcs, f2_idcs>>
    /\ UNCHANGED <<data, freqs, attrs, pc, arg, outcome, pqdm_vars, before,
                   kvars, heap_vars>>

\* _plot.py lines 247-250: plt.show(), and plot returns figures and axes.
Show ==
    /\ plot_pc = "show"
    /\ plot_out' = Some(Returned(<<figures, axes>>))
    /\ plot_pc' = "done"
    /\ UNCHANGED <<n_nodes, plot_arg, nodes, cbar_range, figures, axes, frame,
                   drawn, self_data, self_f1s, self_f2s, sel_f1s, sel_f2s,
                   f1_idcs, f2_idcs>>
    /\ UNCHANGED <<data, freqs, attrs, pc, arg, outcome, pqdm_vars, before,
                   kvars, heap_vars>>

PlotNext ==
    \/ SortPlotInputs
    \/ CreateStep
    \/ DrawStep
    \/ Show

SpecPlot == PlotInit /\ [][PlotNext]_vars

-----------------------------------------------------------------------------
(* Properties of the kernel, under SpecKernel *)

KernelReturned == k_out # None /\ ~The(k_out).raised
KernelRaised == k_out # None /\ The(k_out).raised
KernelMatrix == The(k_out).value

\* Entry [i, j] is for the high frequency k_f2s[i] and the low k_f1s[j].
KernelEntries == {<<i, j>> : i \in 1..Len(k_f2s), j \in 1..Len(k_f1s)}

\* |seed at f1| * |target at f2| is zero in every epoch.
ZeroAmplitudePair(i, j) ==
    /\ k_f1s[j] < k_f2s[i]
    /\ \A e \in 1..Len(k_data) :
        AmpProduct(k_data, fast_find_first(k_freqs, k_f1s[j]),
                   fast_find_first(k_freqs, k_f2s[i]))[e] = 0

C6_ScoreInUnitInterval ==
    KernelReturned =>
        \A p \in KernelEntries :
            k_f1s[p[2]] < k_f2s[p[1]] =>
                /\ ~KernelMatrix[p[1]][p[2]].nan
                /\ KernelMatrix[p[1]][p[2]].d > 0
                /\ 0 <= KernelMatrix[p[1]][p[2]].n
                /\ KernelMatrix[p[1]][p[2]].n <= KernelMatrix[p[1]][p[2]].d

\* A returned matrix with a score strictly between 0 and 1, beside a score
\* of exactly 1.
C6_Witness ==
    /\ KernelReturned
    /\ \E p \in KernelEntries :
        /\ ~KernelMatrix[p[1]][p[2]].nan
        /\ 0 < KernelMatrix[p[1]][p[2]].n
        /\ KernelMatrix[p[1]][p[2]].n < KernelMatrix[p[1]][p[2]].d
    /\ \E p \in KernelEntries :
        /\ ~KernelMatrix[p[1]][p[2]].nan
        /\ KernelMatrix[p[1]][p[2]].n = KernelMatrix[p[1]][p[2]].d

\* C7: when a pair f1 < f2 has a zero amplitude product in every epoch (and
\* no pair of the grids has f1 = 0 < f2), the kernel does not raise and the
\* entry of that pair is NaN.
C7_ZeroAmplitudeGivesNaN ==
    (/\ k_out # None
     /\ \E p \in KernelEntries : ZeroAmplitudePair(p[1], p[2])
     /\ \A p \in KernelEntries :
            ~(k_f1s[p[2]] = 0 /\ k_f1s[p[2]] < k_f2s[p[1]]))
    => /\ ~The(k_out).raised
       /\ \A p \in KernelEntries :
            ZeroAmplitudePair(p[1], p[2]) => KernelMatrix[p[1]][p[2]].nan

\* The pair of entry [i, j] is computed and divides by zero: f1 = 0, or a
\* zero amplitude product in every epoch (the cases of C7 and C21).
DividesByZero(i, j) ==
    /\ k_f1s[j] < k_f2s[i]
    /\ (k_f1s[j] = 0 \/ ZeroAmplitudePair(i, j))

\* Section 8 of the specification: axis [1, 2, 3, 4, 5], f1 = [1, 2],
\* f2 = [3, 4], seed and target identical.
GoldenScenario ==
    /\ k_freqs = <<1, 2, 3, 4, 5>>
    /\ k_f1s = <<1, 2>>
    /\ k_f2s = <<3, 4>>
    /\ \A e \in 1..Len(k_data) : k_data[e][1] = k_data[e][2]

C21_NoDivisionByZeroFrequency ==
    (/\ k_out # None
     /\ \A p \in KernelEntries : ~ZeroAmplitudePair(p[1], p[2]))
    => /\ ~The(k_out).raised
       /\ Len(KernelMatrix) = Len(k_f2s)
       /\ \A i \in 1..Len(KernelMatrix) : Len(KernelMatrix[i]) = Len(k_f1s)

-----------------------------------------------------------------------------
(* Properties of compute, under Spec *)

CallEnded == pc = "idle" /\ outcome # None
CallFailed == CallEnded /\ The(outcome).raised
CallSucceeded == CallEnded /\ ~The(outcome).raised

IndicesValid(a) == ~sort_indices(a.indices).raised
FreqsValid(a) == ~sort_freqs(a.f1, a.f2).raised

\* The kernel's output for the k-th connection of the stored request.
KernelOfConnection(k) ==
    RunKernel([data |-> ConnectionSlice(The(seeds)[k], The(targets)[k]),
               freqs |-> freqs, f1s |-> f1, f2s |-> f2])

AllChannelPairs == (0..(n_chans - 1)) \X (0..(n_chans - 1))

\* C2: a compute call that fails on an object that holds a result leaves the
\* stored result and the stored indices, f1 and f2 as they were.
C2_FailedCallKeepsStoredResult ==
    (CallFailed /\ before.ppc # None /\ before.results # None) =>
        /\ ppc = before.ppc
        /\ results = before.results
        /\ indices = before.indices
        /\ f1 = before.f1
        /\ f2 = before.f2

\* C3: when the kernel fails for a connection no further kernel is started,
\* and no array holding the failure in place of a slice is assembled or
\* stored: compute raises instead.
C3_KernelFailureAbortsCompute ==
    /\ \A k \in 1..Len(futures) : ~futures[k].after_failure
    /\ ppc # None => \A k \in 1..Len(The(ppc)) : ~The(ppc)[k].raised
    /\ results # None =>
        \A k \in 1..Len(The(results).pos1) : ~The(results).pos1[k].raised

\* C4: a call whose connections, f1 or f2 are invalid never invokes the
\* kernel, and ends with the validation error.
C4_InvalidRequestRunsNoKernel ==
    (pc # "idle" \/ outcome # None) /\ ~(IndicesValid(arg) /\ FreqsValid(arg)) =>
        /\ kernel_calls = 0
        /\ CallEnded =>
            /\ The(outcome).raised
            /\ The(outcome).err \in {"ValueError: indices",
                                     "ValueError: frequencies"}

\* A call with valid connections and an f1 that is not on the axis has
\* ended, on an object whose earlier call ran the kernel.
C4_Witness ==
    /\ CallFailed
    /\ IndicesValid(arg)
    /\ arg.f1 = Some(<<7>>)
    /\ The(outcome).err = "ValueError: frequencies"
    /\ before.results # None
    /\ kernel_calls = 0

\* C5: slice k of the assembled array is the kernel's output for the k-th
\* requested (seed, target), whatever the order of completion.
C5_SlicesFollowRequestOrder ==
    ppc # None =>
        /\ Len(The(ppc)) = Len(The(seeds))
        /\ \A k \in 1..Len(The(ppc)) : The(ppc)[k] = KernelOfConnection(k)

\* An array of two different slices is assembled from tasks that completed
\* in the reverse of the request order.
C5_Witness ==
    /\ pc = "store_results"
    /\ ppc # None
    /\ order = <<2, 1>>
    /\ ~The(ppc)[1].raised
    /\ ~The(ppc)[2].raised
    /\ The(ppc)[1] # The(ppc)[2]

\* C8: a call stores the same array as the call before it when both were
\* made with the same connections, f1 and f2 and differ in n_jobs.
C8_SameArrayForAnyNJobs ==
    (/\ CallSucceeded
     /\ before.ppc # None
     /\ before.indices = indices
     /\ before.f1 = f1
     /\ before.f2 = f2
     /\ before.n_jobs # n_jobs)
    => ppc = before.ppc

\* Two connections with different slices, first computed with one worker
\* and then with more than one.
C8_Witness ==
    /\ CallSucceeded
    /\ before.ppc # None
    /\ before.indices = indices
    /\ before.f1 = f1
    /\ before.f2 = f2
    /\ before.n_jobs = Some(1)
    /\ The(n_jobs) > 1
    /\ Len(The(ppc)) = 2
    /\ ~The(ppc)[1].raised
    /\ The(ppc)[1] # The(ppc)[2]

\* C9: with connections = None the assembled array has one slice per ordered
\* pair of channels, self-pairs included; with f1 = None and f2 = None both
\* grids are the whole frequency axis.
C9_DefaultsAreAllPairsAndWholeAxis ==
    /\ (ppc # None /\ arg.indices = None) =>
        /\ Len(The(ppc)) = n_chans * n_chans
        /\ {<<The(seeds)[k], The(targets)[k]>> : k \in 1..Len(The(ppc))}
             = AllChannelPairs
    /\ (ppc # None /\ arg.f1 = None /\ arg.f2 = None) =>
        /\ f1 = Some(freqs)
        /\ f2 = Some(freqs)
        /\ \A k \in 1..Len(The(ppc)) :
            ~The(ppc)[k].raised =>
                /\ Len(The(ppc)[k].value) = Len(freqs)
                /\ \A i \in 1..Len(freqs) :
                    Len(The(ppc)[k].value[i]) = Len(freqs)

\* A call with every argument left at None has stored its matrices.
C9_Witness ==
    /\ CallSucceeded
    /\ arg.indices = None
    /\ arg.f1 = None
    /\ arg.f2 = None
    /\ Len(The(ppc)) = 4
    /\ \A k \in 1..Len(The(ppc)) : ~The(ppc)[k].raised

\* C10: a call whose seeds and targets differ in length, or name a channel
\* that does not exist, ends with the validation error of the connections;
\* the connections are not stored and no kernel runs.
C10_InvalidConnectionsAreRejected ==
    (pc # "idle" \/ outcome # None) /\ ~IndicesValid(arg) =>
        /\ kernel_calls = 0
        /\ tasks = <<>>
        /\ indices # arg.indices
        /\ seeds # None => <<The(seeds), The(targets)>> # The(arg.indices)
        /\ CallEnded =>
            /\ The(outcome).raised
            /\ The(outcome).err = "ValueError: indices"

\* A call with seeds [0, 1] and targets [0] has ended, on an object that
\* holds the connections of an earlier call.
C10_Witness ==
    /\ CallFailed
    /\ arg.indices = Some(<<<<0, 1>>, <<0>>>>)
    /\ before.indices # None
    /\ indices = before.indices

\* The request of the call, as the selectors normalise it.
RequestedConnections == sort_indices(arg.indices).value
RequestedFreqs == sort_freqs(arg.f1, arg.f2).value

\* C11: after a successful call the stored result holds exactly the output
\* of that call -- one kernel matrix per requested connection, the requested
\* connections and the requested f2 and f1 -- and nothing of an earlier call.
C11_StoredResultIsLatestOutput ==
    CallSucceeded =>
        /\ The(results).pos2 = RequestedConnections
        /\ The(results).pos3 = RequestedFreqs[2]
        /\ The(results).pos4 = RequestedFreqs[1]
        /\ Len(The(results).pos1) = Len(RequestedConnections[1])
        /\ \A k \in 1..Len(The(results).pos1) :
            The(results).pos1[k] =
                RunKernel([data |-> ConnectionSlice(RequestedConnections[1][k],
                                                    RequestedConnections[2][k]),
                           freqs |-> freqs,
                           f1s |-> Some(RequestedFreqs[1]),
                           f2s |-> Some(RequestedFreqs[2])])

\* A successful call on an object that held the result of an earlier call
\* with more connections and other grids.
C11_Witness ==
    /\ CallSucceeded
    /\ before.results # None
    /\ Len(The(before.results).pos1) > Len(The(results).pos1)
    /\ The(before.results).pos3 # The(results).pos3
    /\ The(before.results).pos2 # The(results).pos2

\* C13: a call stores the same array as the call before it when both were
\* made on the same data with the same connections, f1, f2 and n_jobs.
C13_SameArrayForSameRequest ==
    (/\ CallSucceeded
     /\ before.ppc # None
     /\ before.indices = indices
     /\ before.f1 = f1
     /\ before.f2 = f2
     /\ before.n_jobs = n_jobs)
    => /\ ppc = before.ppc
       /\ The(results).pos1 = The(before.results).pos1

\* The same request of two connections with different slices was computed
\* twice, each time with more than one worker.
C13_Witness ==
    /\ CallSucceeded
    /\ before.ppc # None
    /\ before.indices = indices
    /\ before.f1 = f1
    /\ before.f2 = f2
    /\ before.n_jobs = n_jobs
    /\ The(n_jobs) > 1
    /\ Len(The(ppc)) = 2
    /\ ~The(ppc)[1].raised
    /\ ~The(ppc)[2].raised
    /\ The(ppc)[1] # The(ppc)[2]

\* C16: the result container is written only when the kernel results of
\* all the requested connections have been collected: each step that changes
\* it is the last step of compute, taken with every task done, and what it
\* stores has one slice per requested connection.
C16_StoredOnlyAfterAllCollected ==
    [][results' # results =>
          /\ pc = "store_results"
          /\ Len(futures) = Len(The(seeds))
          /\ \A k \in 1..Len(futures) : Done(k)
          /\ Len(The(results').pos1) = Len(The(seeds))
          /\ The(results').pos2 = <<The(seeds), The(targets)>>]_vars

\* Some tasks of a call are done and others are not, and the container
\* still holds the result of the call before.
C16_Witness ==
    /\ pc = "pqdm"
    /\ \E k \in 1..Len(futures) : Done(k)
    /\ \E k \in 1..Len(futures) : ~Done(k)
    /\ results # None
    /\ results = before.results
    /\ Len(The(results).pos1) # Len(futures)

\* The score of the pair (v1, v2) for seed channel s and target channel t,
\* from the coefficients of s at the first index of v1 on the axis and those
\* of t at the first index of v2, one per epoch.
ScoreFromData(s, t, v1, v2) ==
    LET i1 == fast_find_first(freqs, v1)
        i2 == fast_find_first(freqs, v2)
        probe == [e \in 1..Len(data) |->
                    << <<data[e][s + 1][i1]>>, <<data[e][t + 1][i2]>> >>]
        den == Denominator(probe, 1, 1)
    IN Score(NumeratorSq(probe, 1, 1, v1, v2), den * den)

\* C17: the dispatcher makes one task per requested connection, in the order
\* of the request; the slice of task k holds, for every epoch, the seed's
\* channel at position 0 and the target's at position 1; and each entry with
\* f1 < f2 of a matrix the kernel returned is the score of the seed's
\* coefficients at the first index of f1 and the target's at the first
\* index of f2, over all epochs.
C17_OneTaskPerConnectionSeedFirst ==
    pc = "pqdm" =>
        /\ Len(tasks) = Len(RequestedConnections[1])
        /\ \A k \in 1..Len(tasks) :
            LET s == RequestedConnections[1][k]
                t == RequestedConnections[2][k]
            IN /\ Len(tasks[k].data) = Len(data)
               /\ \A e \in 1..Len(data) :
                    tasks[k].data[e] = <<data[e][s + 1], data[e][t + 1]>>
               /\ (Done(k) /\ ~Failed(k)) =>
                    \A i \in 1..Len(RequestedFreqs[2]),
                       j \in 1..Len(RequestedFreqs[1]) :
                        RequestedFreqs[1][j] < RequestedFreqs[2][i] =>
                            The(futures[k].out).value[i][j] =
                                ScoreFromData(s, t, RequestedFreqs[1][j],
                                              RequestedFreqs[2][i])

\* The connections (0, 1) and (1, 0) were requested; their slices differ, and
\* the kernel has returned a matrix with a score for the first.
C17_Witness ==
    /\ pc = "pqdm"
    /\ arg.indices = Some(<< <<0, 1>>, <<1, 0>> >>)
    /\ Len(tasks) = 2
    /\ tasks[1].data # tasks[2].data
    /\ Done(1)
    /\ ~Failed(1)
    /\ \E i \in 1..Len(The(f2)), j \in 1..Len(The(f1)) :
        ~The(futures[1].out).value[i][j].nan

\* C18: no step of a compute call changes the FFT tensor or the frequency
\* axis, and while the kernels run no step changes the arguments a kernel
\* was given: its slice of the data, freqs, f1s and f2s.
C18_InputsAreLeftUnchanged ==
    [][/\ data' = data
       /\ freqs' = freqs
       /\ (pc = "pqdm" /\ pc' = "pqdm") => tasks' = tasks]_vars

\* A call in which more than one worker ran kernels has failed, and the
\* tensor and the axis are those the object was constructed with.
C18_Witness ==
    /\ CallFailed
    /\ kernel_calls > 1
    /\ The(n_jobs) > 1
    /\ \E rec \in Recordings :
        /\ data = MkData(rec[1], rec[2])
        /\ freqs = rec[2]

\* C19: a request that names a connection more than once gets one task, one
\* kernel call and one slice per entry of the request, duplicates included,
\* and the slices of equal entries are equal.
C19_DuplicatesAreKept ==
    (arg.indices # None /\ IndicesValid(arg)) =>
        LET s == The(arg.indices)[1]
            t == The(arg.indices)[2]
        IN /\ pc = "pqdm" =>
                /\ Len(tasks) = Len(s)
                /\ \A k, l \in 1..Len(tasks) :
                    (s[k] = s[l] /\ t[k] = t[l]) =>
                        tasks[k].data = tasks[l].data
           /\ ppc # None =>
                /\ Len(The(ppc)) = Len(s)
                /\ kernel_calls = Len(s)
                /\ \A k, l \in 1..Len(s) :
                    (s[k] = s[l] /\ t[k] = t[l]) => The(ppc)[k] = The(ppc)[l]

\* seeds [1, 1] and targets [0, 0]: two kernel calls, two equal matrices.
C19_Witness ==
    /\ CallSucceeded
    /\ arg.indices = Some(<< <<1, 1>>, <<0, 0>> >>)
    /\ kernel_calls = 2
    /\ Len(The(ppc)) = 2
    /\ ~The(ppc)[1].raised
    /\ The(ppc)[1] = The(ppc)[2]
    /\ Len(The(results).pos1) = 2

-----------------------------------------------------------------------------
(* Properties of the result container and the plot object, under SpecAlias *)

\* C12: whatever the caller writes to the arrays it passed to the
\* construction of the container or of the plot object, or to what
\* get_results returned, the data, indices and grids these objects hold stay
\* what they were constructed from.
C12_ContainerIsIsolated ==
    /\ container # None =>
        Deref(heap, The(container)) = The(built.container)
    /\ plot_obj # None =>
        Deref(heap, The(plot_obj)) = The(built.plot)

\* The caller has written to an array it passed to both constructions and
\* to an array of what get_results returned.
C12_Witness ==
    /\ container # None
    /\ plot_obj # None
    /\ returned # None
    /\ Deref(heap, The(caller)) # The(built.container)
    /\ Deref(heap, The(caller)) # The(built.plot)
    /\ Deref(heap, The(returned)) # The(built.container)

-----------------------------------------------------------------------------
(* Properties of plot, under SpecPlot *)

PlotEnded == plot_pc = "done" /\ plot_out # None
PlotInputsValid == ~sort_plot_inputs(plot_arg).raised
PlotSize == plot_arg.n_rows * plot_arg.n_cols

\* C15: a plot call with valid inputs and a non-empty list of nodes returns
\* ceil(len(nodes) / (n_rows * n_cols)) figures and as many arrays of axes,
\* each of length n_rows * n_cols.
C15_PlotReturnsCeilFigures ==
    (PlotEnded /\ PlotInputsValid /\ Len(nodes) > 0) =>
        /\ ~The(plot_out).raised
        /\ Len(The(plot_out).value[1]) = Ceil(Len(nodes), PlotSize)
        /\ Len(The(plot_out).value[2]) = Ceil(Len(nodes), PlotSize)
        /\ \A k \in 1..Len(The(plot_out).value[2]) :
            Len(The(plot_out).value[2][k]) = PlotSize

\* C20: in a plot call with valid inputs and a non-empty list of nodes the
\* drawing loop never reads nodes, cbar_range or axes past their end; what
\* it has drawn is at every moment a prefix of nodes, and when the call has
\* ended it is nodes: each requested node once, in order.
C20_EachNodeDrawnOnceInOrder ==
    (PlotInputsValid /\ Len(nodes) > 0) =>
        /\ plot_out # None => The(plot_out).err # "IndexError"
        /\ Len(drawn) <= Len(nodes)
        /\ \A k \in 1..Len(drawn) : drawn[k] = nodes[k]
        /\ PlotEnded => drawn = nodes

\* The subplots that show a node.
DrawnAxes ==
    {<<g, k>> \in (1..Len(axes)) \X (1..MaxSide * MaxSide) :
        k <= Len(axes[g]) /\ axes[g][k] # None}

\* C22: what a subplot shows at (f1s[j], f2s[i]) is the stored coupling of
\* its connection for the low frequency f1s[j] and the high frequency
\* f2s[i], and reading the stored array never fails: the plot indexes the
\* array in the order [connections, f2, f1] in which compute stores it.
C22_PlotReadsStoredAxisOrder ==
    /\ plot_out # None => The(plot_out).err # "IndexError: data"
    /\ \A p \in DrawnAxes :
        LET shown == The(axes[p[1]][p[2]])
        IN /\ Len(shown.mesh) = Len(sel_f2s)
           /\ \A i \in 1..Len(sel_f2s), j \in 1..Len(sel_f1s) :
                shown.mesh[i][j] = <<shown.node, sel_f1s[j], sel_f2s[i]>>

\* The nodes a call asks for: every node of the results when nodes is None.
RequestedNodes ==
    IF plot_arg.nodes = None THEN [k \in 1..n_nodes |-> k - 1]
    ELSE The(plot_arg.nodes)

\* The limits given for the plots of the requested nodes: the entries of a
\* tuple, or the one list for each requested node.
RequestedRanges ==
    IF plot_arg.cbar_range.kind = "tuple" THEN plot_arg.cbar_range.entries
    ELSE IF plot_arg.cbar_range.kind = "list"
    THEN [k \in 1..Len(RequestedNodes) |-> plot_arg.cbar_range.entries[1]]
    ELSE <<>>

\* The invalid inputs: a node that is not an integer or not in
\* [0, n_nodes), n_rows or n_cols below 1, minor_tick_intervals not below
\* major_tick_intervals, an f1s or f2s value that is not in the results, a
\* cbar_range tuple without one entry per node, a cbar_range entry whose
\* length is not 2.
InvalidPlotInput ==
    \/ plot_arg.node_type # "int"
    \/ \E k \in 1..Len(RequestedNodes) :
        RequestedNodes[k] < 0 \/ RequestedNodes[k] >= n_nodes
    \/ plot_arg.n_rows < 1
    \/ plot_arg.n_cols < 1
    \/ plot_arg.minor_tick_intervals >= plot_arg.major_tick_intervals
    \/ /\ plot_arg.f1s # None
       /\ \E k \in 1..Len(The(plot_arg.f1s)) :
            The(plot_arg.f1s)[k] \notin Range(self_f1s)
    \/ /\ plot_arg.f2s # None
       /\ \E k \in 1..Len(The(plot_arg.f2s)) :
            The(plot_arg.f2s)[k] \notin Range(self_f2s)
    \/ /\ plot_arg.cbar_range.kind = "tuple"
       /\ Len(plot_arg.cbar_range.entries) # Len(RequestedNodes)
    \/ \E k \in 1..Len(RequestedRanges) : Len(RequestedRanges[k]) # 2

\* C23: a plot call with an invalid input creates no figure and draws
\* nothing at any moment, and ends with a TypeError or a ValueError.
C23_InvalidInputCreatesNoFigure ==
    (plot_pc # "none" /\ InvalidPlotInput) =>
        /\ plot_pc \in {"called", "done"}
        /\ figures = <<>>
        /\ axes = <<>>
        /\ drawn = <<>>
        /\ PlotEnded =>
            /\ The(plot_out).raised
            /\ The(plot_out).err \in
                 {"TypeError: nodes", "ValueError: nodes",
                  "ValueError: n_rows, n_cols", "ValueError: tick intervals",
                  "ValueError: f1s, f2s", "ValueError: cbar_range"}

\* A call whose only invalid input is cbar_range, the last input that is
\* validated, has ended with no figure.
C23_Witness ==
    /\ PlotEnded
    /\ The(plot_out).err = "ValueError: cbar_range"
    /\ plot_arg.cbar_range.kind = "tuple"
    /\ Len(RequestedNodes) = NNodes
    /\ plot_arg.n_rows = MaxSide
    /\ figures = <<>>
    /\ drawn = <<>>

====
